---- MODULE Spec2Model ----
(***************************************************************************)
(* Model of the library catalogue of biblioteca.py (usuario.py is the same *)
(* program with the labels changed): the SQLite table `livros`, the        *)
(* repository RepositorioLivros that runs one statement per call, and the  *)
(* menu handlers of BibliotecaApp built on it.                             *)
(*                                                                         *)
(* A text is a sequence of one-character strings.  An optional integer     *)
(* (Optional[int]) is a sequence of length 0 (None) or 1.                  *)
(***************************************************************************)
EXTENDS Integers, Sequences, FiniteSets

MaxId == 2    \* rows ever inserted (caps the AUTOINCREMENT counter)
MaxQtd == 2   \* largest quantidade explored

VARIABLES
  livros,   \* the table: a set of rows [id, titulo, autor, ano, quantidade]
  seq,      \* sqlite_sequence: the largest rowid ever given out
  out,      \* what the last call returned / printed
  hist,     \* history: the row a successful emprestar read, kept while a
            \* devolver of the same id follows it directly
  pc,       \* concurrent callers: position of each caller
  loc,      \* concurrent callers: the Livro object each caller holds
  conc      \* concurrent callers: history of the run

vars == <<livros, seq, out, hist, pc, loc, conc>>

-----------------------------------------------------------------------------
(* Texts *)

None == <<>>
Some(x) == <<x>>

\* ASCII lower-casing, as SQLite's LIKE and NOCASE do it.
Fold(c) == CASE c = "A" -> "a" [] c = "B" -> "b" [] c = "C" -> "c" [] OTHER -> c

\* Character codes after folding, for ORDER BY ... COLLATE NOCASE.
Cod(c) ==
  CASE Fold(c) = " " -> 32 [] Fold(c) = "%" -> 37 [] Fold(c) = "_" -> 95
    [] Fold(c) = "a" -> 97 [] Fold(c) = "b" -> 98 [] Fold(c) = "c" -> 99
    [] OTHER -> 127

RECURSIVE NoCaseLeq(_, _)
NoCaseLeq(a, b) ==
  IF a = <<>> THEN TRUE
  ELSE IF b = <<>> THEN FALSE
  ELSE IF Cod(Head(a)) # Cod(Head(b)) THEN Cod(Head(a)) < Cod(Head(b))
  ELSE NoCaseLeq(Tail(a), Tail(b))

\* str.strip(): leading and trailing blanks removed.
RECURSIVE strip(_)
strip(s) ==
  IF s = <<>> THEN s
  ELSE IF Head(s) = " " THEN strip(Tail(s))
  ELSE IF s[Len(s)] = " " THEN strip(SubSeq(s, 1, Len(s) - 1))
  ELSE s

\* SQLite's LIKE: % matches any run of characters, _ matches one character,
\* any other character matches itself up to ASCII case.  No ESCAPE is given.
RECURSIVE Like(_, _)
Like(p, s) ==
  IF p = <<>> THEN s = <<>>
  ELSE IF Head(p) = "%" THEN Like(Tail(p), s) \/ (s # <<>> /\ Like(p, Tail(s)))
  ELSE IF s = <<>> THEN FALSE
  ELSE IF Head(p) = "_" THEN Like(Tail(p), Tail(s))
  ELSE Fold(Head(p)) = Fold(Head(s)) /\ Like(Tail(p), Tail(s))

-----------------------------------------------------------------------------
(* The table and the repository *)

Livro(i, t, a, y, q) ==
  [id |-> i, titulo |-> t, autor |-> a, ano |-> y, quantidade |-> q]

Ids(tab) == {r.id : r \in tab}

MaxRowid(tab) == IF tab = {} THEN 0 ELSE CHOOSE m \in Ids(tab) : \A i \in Ids(tab) : i <= m

\* Variant: the id taken from the number of rows.
NovoId_Contagem(tab, sq) == Cardinality(tab) + 1

\* INTEGER PRIMARY KEY AUTOINCREMENT: one more than the largest rowid ever used.
NovoId(tab, sq) == (IF sq >= MaxRowid(tab) THEN sq ELSE MaxRowid(tab)) + 1

\* Variant: quantidade left out of the INSERT, so the column default applies.
adicionar_SemQuantidade(tab, sq, l) ==
  tab \cup {Livro(NovoId(tab, sq), l.titulo, l.autor, l.ano, 1)}

\* INSERT INTO livros (titulo, autor, ano, quantidade): the id of `l` is not sent.
adicionar(tab, sq, l) ==
  tab \cup {Livro(NovoId(tab, sq), l.titulo, l.autor, l.ano, l.quantidade)}

\* Variant: a row is inserted when none has the id.
atualizar_Upsert(tab, l) ==
  IF \E r \in tab : r.id = l.id
    THEN {IF r.id = l.id THEN Livro(r.id, l.titulo, l.autor, l.ano, l.quantidade) ELSE r : r \in tab}
    ELSE tab \cup {l}

\* UPDATE livros SET titulo=?, autor=?, ano=?, quantidade=? WHERE id=?
atualizar(tab, l) ==
  {IF r.id = l.id THEN Livro(r.id, l.titulo, l.autor, l.ano, l.quantidade) ELSE r : r \in tab}

\* DELETE FROM livros WHERE id=?
remover(tab, i) == {r \in tab : r.id # i}

\* cur.rowcount of a statement with WHERE id=?
rowcount(tab, i) == Cardinality({r \in tab : r.id = i})

\* Variant: >= for >.
removido_Sempre(tab, i) == rowcount(tab, i) >= 0

\* return cur.rowcount > 0
removido(tab, i) == rowcount(tab, i) > 0

\* Variant: the WHERE clause lost, fetchone gives the row of largest id.
obter_por_id_Qualquer(tab, i) ==
  IF tab = {} THEN None ELSE Some(CHOOSE r \in tab : \A x \in tab : x.id <= r.id)

\* SELECT ... WHERE id=? then fetchone and Livro.from_row: None or one Livro.
obter_por_id(tab, i) ==
  IF \E r \in tab : r.id = i THEN Some(CHOOSE r \in tab : r.id = i) ELSE None

\* WHERE titulo LIKE '%termo%' OR autor LIKE '%termo%'
termo_like(termo) == <<"%">> \o termo \o <<"%">>

Encontrados(tab, termo) ==
  {r \in tab : Like(termo_like(termo), r.titulo) \/ Like(termo_like(termo), r.autor)}

\* ORDER BY titulo COLLATE NOCASE: every listing of S in that order (SQL leaves
\* the order of rows with equal keys open).
Ordenados(S) ==
  {f \in [1..Cardinality(S) -> S] :
     /\ \A r \in S : \E i \in DOMAIN f : f[i] = r
     /\ \A i, j \in DOMAIN f : i < j => NoCaseLeq(f[i].titulo, f[j].titulo)}

buscar(tab, termo) == Ordenados(Encontrados(tab, termo))

listar_todos(tab) == Ordenados(tab)

-----------------------------------------------------------------------------
(* Inputs *)

Termos == {<<>>, <<"a">>, <<"B">>, <<"_">>, <<"%">>, <<"a", "b">>, <<"c", "c">>, <<"b", "%">>}

\* Ids a caller may name: the stored ones, and 0 and MaxId + 1, never stored.
IdsEntrada == 0..(MaxId + 1)

\* The title, author and year of the Livro objects handed to the repository.
Amostras ==
  { [titulo |-> <<"A", "b">>, autor |-> <<"c">>, ano |-> None],
    [titulo |-> <<"a", "_">>, autor |-> <<"b", "%">>, ano |-> Some(1965)] }

\* Livro objects handed to the repository directly.
LivrosEntrada ==
  {Livro(i, s.titulo, s.autor, s.ano, q) : i \in IdsEntrada, s \in Amostras, q \in (-1)..MaxQtd}

Saida(op, i, msg, n, rows) == [op |-> op, id |-> i, msg |-> msg, n |-> n, rows |-> rows]

NoHist == [fase |-> "nenhum", id |-> 0, livro |-> None]

Init ==
  /\ livros = {}
  /\ seq = 0
  /\ out = Saida("inicio", 0, "", 0, <<>>)
  /\ hist = NoHist
  /\ pc = <<>>
  /\ loc = <<>>
  /\ conc = <<>>

-----------------------------------------------------------------------------
(* Repository calls *)

ConcIdle == /\ pc' = pc /\ loc' = loc /\ conc' = conc

Adicionar(l) ==
  /\ NovoId(livros, seq) <= MaxId
  /\ livros' = adicionar(livros, seq, l)
  /\ seq' = NovoId(livros, seq)
  /\ out' = Saida("adicionar", NovoId(livros, seq), "", 1,
                  <<[l EXCEPT !.id = NovoId(livros, seq)]>>)
  /\ hist' = NoHist
  /\ ConcIdle

Atualizar(l) ==
  /\ livros' = atualizar(livros, l)
  /\ out' = Saida("atualizar", l.id, "", rowcount(livros, l.id), <<>>)
  /\ hist' = NoHist
  /\ UNCHANGED seq
  /\ ConcIdle

Remover(i) ==
  /\ livros' = remover(livros, i)
  /\ out' = Saida("remover", i, IF removido(livros, i) THEN "True" ELSE "False",
                  rowcount(livros, i), <<>>)
  /\ hist' = NoHist
  /\ UNCHANGED seq
  /\ ConcIdle

ObterPorId(i) ==
  /\ out' = Saida("obter_por_id", i, "", 0, obter_por_id(livros, i))
  /\ hist' = NoHist
  /\ UNCHANGED <<livros, seq>>
  /\ ConcIdle

ListarTodos ==
  /\ \E f \in listar_todos(livros) : out' = Saida("listar_todos", 0, "", 0, f)
  /\ hist' = NoHist
  /\ UNCHANGED <<livros, seq>>
  /\ ConcIdle

Buscar(termo) ==
  /\ \E f \in buscar(livros, termo) : out' = Saida("buscar", 0, "", 0, f)
  /\ hist' = NoHist
  /\ UNCHANGED <<livros, seq>>
  /\ ConcIdle

-----------------------------------------------------------------------------
(* Menu handlers.  A typed line that int() accepts is Some(n); one it rejects *)
(* is None.  A line for which str.isdigit() holds is Some(n) with n >= 0;     *)
(* any other line (blank, signed, not a number) is None.                      *)

IdsDigitados == {None} \cup {Some(i) : i \in IdsEntrada}
NumerosDigitados == {None} \cup {Some(n) : n \in 0..MaxQtd}
TermosDigitados == {<<" ">>, <<"a", " ">>, <<"_">>}

\* The lines typed for title, author and year in one form.
Formularios ==
  { [titulo |-> <<" ">>, autor |-> <<>>, ano |-> None],
    [titulo |-> <<" ", "A", "b">>, autor |-> <<"c", " ">>, ano |-> Some(1965)],
    [titulo |-> <<"a", "_">>, autor |-> <<"c", " ">>, ano |-> Some(1965)] }

isdigit(raw) == raw # None
int(raw) == raw[1]

\* What a handler leaves behind: the table and what it printed.
Efeito(tab, sq, o) == [livros |-> tab, seq |-> sq, out |-> o]

\* Variants of the availability test: < for <=, and = for <=.
SemCopias_Estrito(livro) == livro.quantidade < 0
SemCopias_Zero(livro) == livro.quantidade = 0

\* if livro.quantidade <= 0
SemCopias(livro) == livro.quantidade <= 0

\* livro.quantidade -= 1
Decrementa(livro) == [livro EXCEPT !.quantidade = @ - 1]

\* Variant: the increment lost.
Incrementa_Nada(livro) == livro

\* livro.quantidade += 1
Incrementa(livro) == [livro EXCEPT !.quantidade = @ + 1]

emprestar(tab, sq, raw) ==
  IF raw = None THEN Efeito(tab, sq, Saida("emprestar", 0, "ID invalido", 0, <<>>))
  ELSE LET livro == obter_por_id(tab, int(raw)) IN
    IF livro = None
      THEN Efeito(tab, sq, Saida("emprestar", int(raw), "nao encontrado", 0, <<>>))
    ELSE IF SemCopias(livro[1])
      THEN Efeito(tab, sq, Saida("emprestar", int(raw), "nenhuma copia", 0, <<>>))
    ELSE Efeito(atualizar(tab, Decrementa(livro[1])), sq,
                Saida("emprestar", int(raw), "emprestado", 0, <<Decrementa(livro[1])>>))

devolver(tab, sq, raw) ==
  IF raw = None THEN Efeito(tab, sq, Saida("devolver", 0, "ID invalido", 0, <<>>))
  ELSE LET livro == obter_por_id(tab, int(raw)) IN
    IF livro = None
      THEN Efeito(tab, sq, Saida("devolver", int(raw), "nao encontrado", 0, <<>>))
    ELSE Efeito(atualizar(tab, Incrementa(livro[1])), sq,
                Saida("devolver", int(raw), "devolvido", 0, <<Incrementa(livro[1])>>))

cadastrar_livro(tab, sq, titulo_in, autor_in, ano_raw, qtd_raw) ==
  LET ano == IF isdigit(ano_raw) THEN Some(int(ano_raw)) ELSE None
      quantidade == IF isdigit(qtd_raw) /\ int(qtd_raw) > 0 THEN int(qtd_raw) ELSE 1
      livro == Livro(0, strip(titulo_in), strip(autor_in), ano, quantidade)
  IN Efeito(adicionar(tab, sq, livro), NovoId(tab, sq),
            Saida("cadastrar_livro", NovoId(tab, sq), "cadastrado", 0, <<>>))

editar_livro(tab, sq, raw, titulo_in, autor_in, ano_raw, qtd_raw) ==
  IF raw = None THEN Efeito(tab, sq, Saida("editar_livro", 0, "ID invalido", 0, <<>>))
  ELSE LET livro == obter_por_id(tab, int(raw)) IN
    IF livro = None
      THEN Efeito(tab, sq, Saida("editar_livro", int(raw), "nao encontrado", 0, <<>>))
    ELSE LET titulo == IF strip(titulo_in) # <<>> THEN strip(titulo_in) ELSE livro[1].titulo
             autor == IF strip(autor_in) # <<>> THEN strip(autor_in) ELSE livro[1].autor
             ano == IF isdigit(ano_raw) THEN Some(int(ano_raw)) ELSE livro[1].ano
             quantidade == IF isdigit(qtd_raw) THEN int(qtd_raw) ELSE livro[1].quantidade
         IN Efeito(atualizar(tab, Livro(livro[1].id, titulo, autor, ano, quantidade)), sq,
                   Saida("editar_livro", int(raw), "atualizado", 0, <<>>))

remover_livro(tab, sq, raw) ==
  IF raw = None THEN Efeito(tab, sq, Saida("remover_livro", 0, "ID invalido", 0, <<>>))
  ELSE Efeito(remover(tab, int(raw)), sq,
              Saida("remover_livro", int(raw),
                    IF removido(tab, int(raw)) THEN "removido" ELSE "nao encontrado",
                    0, <<>>))

Aplica(e) ==
  /\ livros' = e.livros
  /\ seq' = e.seq
  /\ out' = e.out
  /\ ConcIdle

\* The row a successful emprestar read from the table.
Lido(tab, raw) == obter_por_id(tab, int(raw))

Emprestar(raw) ==
  /\ Aplica(emprestar(livros, seq, raw))
  /\ hist' = IF emprestar(livros, seq, raw).out.msg = "emprestado"
               THEN [fase |-> "emprestado", id |-> int(raw), livro |-> Lido(livros, raw)]
               ELSE NoHist

Devolver(raw) ==
  /\ raw # None /\ obter_por_id(livros, int(raw)) # None
       => obter_por_id(livros, int(raw))[1].quantidade < MaxQtd
  /\ Aplica(devolver(livros, seq, raw))
  /\ hist' = IF /\ devolver(livros, seq, raw).out.msg = "devolvido"
                /\ hist.fase = "emprestado"
                /\ hist.id = int(raw)
               THEN [hist EXCEPT !.fase = "devolvido"]
               ELSE NoHist

CadastrarLivro(titulo_in, autor_in, ano_raw, qtd_raw) ==
  /\ NovoId(livros, seq) <= MaxId
  /\ Aplica(cadastrar_livro(livros, seq, titulo_in, autor_in, ano_raw, qtd_raw))
  /\ hist' = NoHist

EditarLivro(raw, titulo_in, autor_in, ano_raw, qtd_raw) ==
  /\ Aplica(editar_livro(livros, seq, raw, titulo_in, autor_in, ano_raw, qtd_raw))
  /\ hist' = NoHist

RemoverLivro(raw) ==
  /\ Aplica(remover_livro(livros, seq, raw))
  /\ hist' = NoHist

ListarLivros ==
  /\ \E f \in listar_todos(livros) :
       out' = Saida("listar_livros", 0, IF f = <<>> THEN "nenhum cadastrado" ELSE "", 0, f)
  /\ hist' = NoHist
  /\ UNCHANGED <<livros, seq>>
  /\ ConcIdle

BuscarLivro(termo_in) ==
  /\ IF strip(termo_in) = <<>>
       THEN out' = Saida("buscar_livro", 0, "termo vazio", 0, <<>>)
       ELSE \E f \in buscar(livros, strip(termo_in)) :
              out' = Saida("buscar_livro", 0, IF f = <<>> THEN "nenhum resultado" ELSE "", 0, f)
  /\ hist' = NoHist
  /\ UNCHANGED <<livros, seq>>
  /\ ConcIdle

\* BibliotecaApp.menu: one handler per choice.
Next ==
  \/ \E f \in Formularios, q \in NumerosDigitados :
        CadastrarLivro(f.titulo, f.autor, f.ano, q)
  \/ ListarLivros
  \/ \E t \in TermosDigitados : BuscarLivro(t)
  \/ \E raw \in IdsDigitados, f \in Formularios, q \in NumerosDigitados :
        EditarLivro(raw, f.titulo, f.autor, f.ano, q)
  \/ \E raw \in IdsDigitados : RemoverLivro(raw)
  \/ \E raw \in IdsDigitados : Emprestar(raw)
  \/ \E raw \in IdsDigitados : Devolver(raw)

Spec == Init /\ [][Next]_vars

\* The repository driven directly, with the two stock handlers on top of it.
NextRepo ==
  \/ \E l \in LivrosEntrada : Adicionar(l)
  \/ \E l \in LivrosEntrada : Atualizar(l)
  \/ \E i \in IdsEntrada : Remover(i)
  \/ \E i \in IdsEntrada : ObterPorId(i)
  \/ ListarTodos
  \/ \E t \in Termos : Buscar(t)
  \/ \E raw \in IdsDigitados : Emprestar(raw)
  \/ \E raw \in IdsDigitados : Devolver(raw)

SpecRepo == Init /\ [][NextRepo]_vars

-----------------------------------------------------------------------------
(* Two callers at once.  Each runs one emprestar or devolver on the shared   *)
(* table: obter_por_id is one statement on one connection, atualizar is      *)
(* another, and nothing ties the two together.                               *)

Callers == {"c1", "c2"}

TabelasIniciais ==
  { {Livro(1, <<"A", "b">>, <<"c">>, None, q1),
     Livro(2, <<"a", "_">>, <<"b", "%">>, Some(1965), q2)} : q1 \in 0..MaxQtd, q2 \in 0..MaxQtd }

Local(op, i, livro, msg) == [op |-> op, id |-> i, livro |-> livro, msg |-> msg]

InitConc ==
  /\ livros \in TabelasIniciais
  /\ seq = MaxRowid(livros)
  /\ out = Saida("inicio", 0, "", 0, <<>>)
  /\ hist = NoHist
  /\ pc = [c \in Callers |-> "idle"]
  /\ loc = [c \in Callers |-> Local("", 0, None, "")]
  /\ conc = [inicial |-> livros, sobreposto |-> FALSE]

\* livro = self.repo.obter_por_id(livro_id) and the checks that follow it.
Ler(c, op, i) ==
  /\ pc[c] = "idle"
  /\ LET livro == obter_por_id(livros, i) IN
       IF livro = None
         THEN /\ pc' = [pc EXCEPT ![c] = "done"]
              /\ loc' = [loc EXCEPT ![c] = Local(op, i, None, "nao encontrado")]
       ELSE IF op = "emprestar" /\ SemCopias(livro[1])
         THEN /\ pc' = [pc EXCEPT ![c] = "done"]
              /\ loc' = [loc EXCEPT ![c] = Local(op, i, livro, "nenhuma copia")]
       ELSE /\ pc' = [pc EXCEPT ![c] = "lido"]
            /\ loc' = [loc EXCEPT ![c] = Local(op, i, livro, "")]
  /\ conc' = [conc EXCEPT !.sobreposto = @ \/ (\E d \in Callers \ {c} : pc[d] = "lido")]
  /\ UNCHANGED <<livros, seq, out, hist>>

\* livro.quantidade -= 1 (or += 1) and self.repo.atualizar(livro).
Escrever(c) ==
  /\ pc[c] = "lido"
  /\ livros' = atualizar(livros, IF loc[c].op = "emprestar"
                                   THEN Decrementa(loc[c].livro[1])
                                   ELSE Incrementa(loc[c].livro[1]))
  /\ pc' = [pc EXCEPT ![c] = "done"]
  /\ loc' = [loc EXCEPT ![c].msg = IF loc[c].op = "emprestar" THEN "emprestado" ELSE "devolvido"]
  /\ UNCHANGED <<seq, out, hist, conc>>

NextConc ==
  \E c \in Callers :
    \/ \E op \in {"emprestar", "devolver"}, i \in IdsEntrada : Ler(c, op, i)
    \/ Escrever(c)

SpecConc == InitConc /\ [][NextConc]_vars

-----------------------------------------------------------------------------
(* Properties *)

TemId(tab, i) == \E r \in tab : r.id = i

Linha(tab, i) == CHOOSE r \in tab : r.id = i

FoldStr(s) == [i \in 1..Len(s) |-> Fold(s[i])]

\* t occurs in s as a substring, up to ASCII case.
Contem(s, t) ==
  \E k \in 0..(Len(s) - Len(t)) : SubSeq(FoldStr(s), k + 1, k + Len(t)) = FoldStr(t)

Conjunto(f) == {f[k] : k \in DOMAIN f}

\* C1: emprestar on a stored item whose quantidade is 0 or less prints that no
\* copy is available and leaves every row of the table as it was.
C1_EmprestarSemCopias ==
  [][out'.op = "emprestar" => \A raw \in IdsDigitados \ {None} :
       (Emprestar(raw) /\ TemId(livros, int(raw)) /\ Linha(livros, int(raw)).quantidade <= 0)
         => (out'.msg = "nenhuma copia" /\ livros' = livros)]_vars

C1_Witness ==
  /\ out.op = "emprestar" /\ out.msg = "nenhuma copia"
  /\ TemId(livros, out.id) /\ Linha(livros, out.id).quantidade = 0

\* C2: a successful emprestar directly followed by devolver of the same id leaves
\* the row as it was before the emprestar: quantidade, titulo, autor, ano and id.
C2_EmprestarDevolver ==
  hist.fase = "devolvido" =>
    /\ rowcount(livros, hist.id) = 1
    /\ Linha(livros, hist.id) = hist.livro[1]

C2_Witness == hist.fase = "devolvido" /\ out.op = "devolver" /\ out.msg = "devolvido"

QuantidadeNaoNegativa == \A r \in livros : r.quantidade >= 0

\* C3: under the menu no stored quantidade is ever negative, and a step of
\* emprestar lowers a quantidade only from a value above 0, and by 1.
C3_QuantidadeNaoNegativa ==
  /\ []QuantidadeNaoNegativa
  /\ [][\A r \in livros, r2 \in livros' :
          (out'.op = "emprestar" /\ r2.id = r.id /\ r2.quantidade < r.quantidade)
            => (r.quantidade > 0 /\ r2.quantidade = r.quantidade - 1)]_vars

C3_Witness ==
  /\ out.op = "emprestar" /\ out.msg = "emprestado"
  /\ TemId(livros, out.id) /\ Linha(livros, out.id).quantidade = 0

\* C4: remover of a stored id returns True, takes exactly that row out, and
\* obter_por_id then gives None; remover of an id not stored returns False and
\* leaves the table as it was.
C4_Remover ==
  [][out'.op = "remover" => \A i \in IdsEntrada :
       Remover(i) =>
         IF TemId(livros, i)
           THEN /\ out'.msg = "True"
                /\ livros' = livros \ {Linha(livros, i)}
                /\ Cardinality(livros') = Cardinality(livros) - 1
                /\ obter_por_id(livros', i) = None
           ELSE /\ out'.msg = "False"
                /\ livros' = livros]_vars

C4_Witness ==
  /\ out.op = "remover" /\ out.msg = "True" /\ out.id <= seq
  /\ obter_por_id(livros, out.id) = None

\* C5: after adicionar, obter_por_id of the returned id gives a Livro with the
\* titulo, autor, ano and quantidade passed in and the id the store assigned,
\* whatever id the argument carried.
C5_AdicionarObter ==
  [][out'.op = "adicionar" => \A l \in LivrosEntrada :
       Adicionar(l) =>
         /\ out'.id = seq'
         /\ obter_por_id(livros', out'.id) = Some(Livro(out'.id, l.titulo, l.autor, l.ano, l.quantidade))
         /\ out'.rows = obter_por_id(livros', out'.id)]_vars

C5_Witness ==
  /\ out.op = "adicionar"
  /\ obter_por_id(livros, out.id) = out.rows
  /\ out.rows[1].quantidade # 1

\* C6: atualizar with an id no row has changes nothing and adds no row; with a
\* stored id it overwrites titulo, autor, ano and quantidade of that row alone.
C6_Atualizar ==
  [][out'.op = "atualizar" => \A l \in {x \in LivrosEntrada : x.id = out'.id} :
       Atualizar(l) =>
         IF TemId(livros, l.id)
           THEN /\ Linha(livros', l.id) = l
                /\ {r \in livros' : r.id # l.id} = {r \in livros : r.id # l.id}
                /\ Cardinality(livros') = Cardinality(livros)
           ELSE livros' = livros]_vars

C6_Witness == out.op = "atualizar" /\ out.n = 0 /\ ~TemId(livros, out.id) /\ livros # {}

\* C7: emprestar and devolver of an id no row has print that the item was not
\* found and leave the table as it was.
C7_NaoEncontrado ==
  [][out'.op \in {"emprestar", "devolver"} => \A raw \in IdsDigitados \ {None} :
       (~TemId(livros, int(raw)) /\ (Emprestar(raw) \/ Devolver(raw)))
         => (out'.msg = "nao encontrado" /\ livros' = livros)]_vars

\* an id that was stored and has been removed
C7_Witness ==
  /\ out.op \in {"emprestar", "devolver"} /\ out.msg = "nao encontrado"
  /\ out.id >= 1 /\ out.id <= seq /\ ~TemId(livros, out.id) /\ livros # {}

\* C8: buscar returns exactly the rows whose titulo or autor contains the term
\* as a substring up to case, for every term, % and _ included.
C8_BuscarSubstring ==
  [][out'.op = "buscar" => \A termo \in Termos :
       Buscar(termo) =>
         Conjunto(out'.rows) = {r \in livros : Contem(r.titulo, termo) \/ Contem(r.autor, termo)}]_vars

IdsUnicos == \A r1, r2 \in livros : r1.id = r2.id => r1 = r2

\* C9: no two rows share an id; adicionar returns an id no stored row has; and
\* atualizar, emprestar and devolver leave the ids of the rows as they were.
C9_IdsUnicos ==
  /\ []IdsUnicos
  /\ [][/\ out'.op = "adicionar" => out'.id \notin Ids(livros) /\ out'.rows[1].id = out'.id
        /\ out'.op \in {"atualizar", "emprestar", "devolver"}
             => (Ids(livros') = Ids(livros) /\ Cardinality(livros') = Cardinality(livros))]_vars

\* adicionar after a row was removed
C9_Witness == out.op = "adicionar" /\ Cardinality(livros) < seq /\ out.id \in Ids(livros)

Feito(c) == pc[c] = "done" /\ loc[c].msg \in {"emprestado", "devolvido"}

Delta(c) == IF loc[c].op = "emprestar" THEN 0 - 1 ELSE 1

\* C10: two callers that both finished emprestar or devolver on one id.  When the
\* second read the row before the first wrote it, the stored quantidade shows one
\* of the two changes only; otherwise it shows both.  Two emprestar that both
\* succeed on a quantidade of 1 happen only that way and leave 0.
C10_AtualizacaoPerdida ==
  \A c, d \in Callers :
    (c # d /\ Feito(c) /\ Feito(d) /\ loc[c].id = loc[d].id) =>
      LET q0 == Linha(conc.inicial, loc[c].id).quantidade
          q == Linha(livros, loc[c].id).quantidade
      IN /\ conc.sobreposto => q \in {q0 + Delta(c), q0 + Delta(d)}
         /\ ~conc.sobreposto => q = q0 + Delta(c) + Delta(d)
         /\ (loc[c].op = "emprestar" /\ loc[d].op = "emprestar" /\ q0 = 1)
              => (conc.sobreposto /\ q = 0)

C10_Witness ==
  \E c, d \in Callers :
    /\ c # d /\ Feito(c) /\ Feito(d) /\ loc[c].id = loc[d].id
    /\ loc[c].op = "emprestar" /\ loc[d].op = "emprestar"
    /\ Linha(conc.inicial, loc[c].id).quantidade = 1
    /\ Linha(livros, loc[c].id).quantidade = 0

====
